---- MODULE Spec2Model ----
(***************************************************************************)
(* Model of luminosita/go-basic: the process started by cmd/api/main.go.   *)
(* It loads the configuration, builds the logger and the dependency        *)
(* container, builds the HTTP server and runs Server.Start, which serves   *)
(* in a goroutine and shuts down on SIGINT/SIGTERM.                        *)
(*                                                                         *)
(* Strings that the code converts (strings.ToUpper, the weak string->int   *)
(* decoding of PORT) are sequences of one-character strings, so that the   *)
(* conversions are computed and not assumed.                               *)
(***************************************************************************)
EXTENDS Integers, Sequences, FiniteSets, TLC

----------------------------------------------------------------------------
(* Bounds of the model. *)

\* number of connections the listener may accept in one run
MaxRequests == 2
\* number of SIGINT/SIGTERM deliveries in one run
MaxSignals == 2
\* number of Container.Close calls made by the container test harness
MaxCloseCalls == 3
MaxHTTPRequests == 2
MaxClock == 2
MaxNewCalls == 6
MaxIdle == 2

----------------------------------------------------------------------------
(* Option values: <<>> is nil / unset, <<x>> is a present value. *)

Nil == <<>>

Some(x) == <<x>>

----------------------------------------------------------------------------
(* Strings as character sequences. *)

LowerToUpper ==
  ("a" :> "A") @@ ("b" :> "B") @@ ("c" :> "C") @@ ("d" :> "D") @@
  ("e" :> "E") @@ ("f" :> "F") @@ ("g" :> "G") @@ ("i" :> "I") @@
  ("j" :> "J") @@ ("l" :> "L") @@ ("m" :> "M") @@ ("n" :> "N") @@
  ("o" :> "O") @@ ("r" :> "R") @@ ("s" :> "S") @@ ("t" :> "T") @@
  ("u" :> "U") @@ ("w" :> "W") @@ ("x" :> "X")

\* no normalisation of the case
ToUpper_Identity(s) == s

\* strings.ToUpper (config.go:68), on the letters the inputs use
ToUpper(s) ==
  [i \in DOMAIN s |-> IF s[i] \in DOMAIN LowerToUpper THEN LowerToUpper[s[i]] ELSE s[i]]

DigitValue ==
  ("0" :> 0) @@ ("1" :> 1) @@ ("2" :> 2) @@ ("3" :> 3) @@ ("4" :> 4) @@
  ("5" :> 5) @@ ("6" :> 6) @@ ("7" :> 7) @@ ("8" :> 8) @@ ("9" :> 9)

IsDecimal(s) ==
  /\ Len(s) > 0
  /\ \A i \in DOMAIN s : s[i] \in DOMAIN DigitValue
  /\ (Len(s) > 1 => s[1] # "0")

RECURSIVE DecimalValue(_)
DecimalValue(s) ==
  IF s = <<>> THEN 0
  ELSE 10 * DecimalValue(SubSeq(s, 1, Len(s) - 1)) + DigitValue[s[Len(s)]]

S_INFO == <<"I", "N", "F", "O">>
S_DEBUG == <<"D", "E", "B", "U", "G">>
S_WARNING == <<"W", "A", "R", "N", "I", "N", "G">>
S_WARN == <<"W", "A", "R", "N">>
S_ERROR == <<"E", "R", "R", "O", "R">>
S_CRITICAL == <<"C", "R", "I", "T", "I", "C", "A", "L">>
S_FATAL == <<"F", "A", "T", "A", "L">>
S_json == <<"j", "s", "o", "n">>
S_text == <<"t", "e", "x", "t">>

----------------------------------------------------------------------------
(* The process environment: each recognised key is unset (Nil) or set to   *)
(* a string.                                                               *)

PortInputs ==
  { Nil, Some(<<"0">>), Some(<<"1">>), Some(<<"6", "5", "5", "3", "5">>),
    Some(<<"6", "5", "5", "3", "6">>), Some(<<"a", "b", "c">>) }

LogLevelInputs ==
  { Nil, Some(S_INFO), Some(<<"d", "e", "b", "u", "g">>),
    Some(<<"W", "a", "r", "n", "i", "n", "g">>), Some(S_CRITICAL),
    Some(S_WARN), Some(<<"T", "R", "A", "C", "E">>) }

LogFormatInputs ==
  { Nil, Some(S_json), Some(S_text), Some(<<"J", "S", "O", "N">>),
    Some(<<"x", "m", "l">>) }

DebugInputs ==
  { Nil, Some(<<"t", "r", "u", "e">>), Some(<<"f", "a", "l", "s", "e">>) }

\* the environments the process is run in: the server settings vary, the
\* application metadata and the host are left unset
Environments ==
  [APP_NAME : {Nil}, APP_VERSION : {Nil}, HOST : {Nil},
   PORT : PortInputs, LOG_LEVEL : LogLevelInputs, LOG_FORMAT : LogFormatInputs,
   DEBUG : DebugInputs]

\* the recognised keys (mapstructure tags of Config)
Keys ==
  {"APP_NAME", "APP_VERSION", "DEBUG", "HOST", "PORT", "LOG_LEVEL", "LOG_FORMAT"}

\* an environment, or the contents of a .env file, that sets no key
Unset == [k \in Keys |-> Nil]

----------------------------------------------------------------------------
(* internal/config: Config, Load and its validation. *)

DefaultPort == 8000

\* defaults with another application name
Defaults_OtherName ==
  [APP_NAME |-> "go-basic", APP_VERSION |-> "0.1.0", HOST |-> "0.0.0.0",
   LOG_LEVEL |-> S_INFO, LOG_FORMAT |-> S_json]

\* v.SetDefault(...), config.go:41-47 (PORT and DEBUG are typed defaults,
\* see DefaultPort and DebugOf)
Defaults ==
  [APP_NAME |-> "CHANGE_ME", APP_VERSION |-> "0.1.0", HOST |-> "0.0.0.0",
   LOG_LEVEL |-> S_INFO, LOG_FORMAT |-> S_json]

\* the value of key k in the .env file f; f is Nil when there is no file
FileValue(f, k) == IF f = Nil THEN Nil ELSE f[1][k]

\* precedence with the sources swapped: the file wins over the environment
Find_FileFirst(e, f, k) == IF FileValue(f, k) # Nil THEN FileValue(f, k) ELSE e[k]

\* v.ReadInConfig() then v.AutomaticEnv(): the environment value when the
\* key is set there, else the .env value, else Nil (the default applies).
\* A key is set when it has a non-empty value: viper ignores empty ones.
Find(e, f, k) == IF e[k] # Nil THEN e[k] ELSE FileValue(f, k)

\* the string found for a key, or its default
Lookup(e, default) == IF e = Nil THEN default ELSE e[1]

\* decoding of PORT into Config.Port by v.Unmarshal: the default is already
\* an int, an environment string is parsed
PortDecodes(e) == e = Nil \/ IsDecimal(e[1])

PortOf(e) == IF e = Nil THEN DefaultPort ELSE DecimalValue(e[1])

\* decoding of DEBUG into Config.Debug (strconv.ParseBool on the string)
BoolTrue ==
  { <<"1">>, <<"t">>, <<"T">>, <<"t", "r", "u", "e">>, <<"T", "R", "U", "E">>,
    <<"T", "r", "u", "e">> }

BoolFalse ==
  { <<"0">>, <<"f">>, <<"F">>, <<"f", "a", "l", "s", "e">>,
    <<"F", "A", "L", "S", "E">>, <<"F", "a", "l", "s", "e">> }

DebugDecodes(e) == e = Nil \/ e[1] \in BoolTrue \cup BoolFalse

DebugOf(e) == e # Nil /\ e[1] \in BoolTrue

\* the port check with both limits excluded
ValidPort_Exclusive(p) == p > 1 /\ p < 65535

\* the port check without its upper limit
ValidPort_NoMax(p) == p >= 1

\* validate:"required,min=1,max=65535"
ValidPort(p) == p >= 1 /\ p <= 65535

\* validate:"required,oneof=DEBUG INFO WARNING ERROR CRITICAL"
ValidLogLevel(l) == l \in {S_DEBUG, S_INFO, S_WARNING, S_ERROR, S_CRITICAL}

\* a format check that ignores the case
ValidLogFormat_AnyCase(f) ==
  [i \in DOMAIN f |-> IF f[i] \in DOMAIN LowerToUpper THEN LowerToUpper[f[i]] ELSE f[i]]
    \in {<<"J", "S", "O", "N">>, <<"T", "E", "X", "T">>}

\* validate:"required,oneof=json text"
ValidLogFormat(f) == f \in {S_json, S_text}

\* validate:"required" on AppName, AppVersion and Host
Required(v) == v # ""

\* v.Unmarshal: the keys whose string does not decode into the field's type
Undecodable(e, f) ==
  {k \in {"PORT"} : ~PortDecodes(Find(e, f, k))}
    \cup {k \in {"DEBUG"} : ~DebugDecodes(Find(e, f, k))}

\* the Config that v.Unmarshal fills, with LogLevel upper-cased (line 68)
Decoded(e, f) ==
  [AppName |-> Lookup(Find(e, f, "APP_NAME"), Defaults.APP_NAME),
   AppVersion |-> Lookup(Find(e, f, "APP_VERSION"), Defaults.APP_VERSION),
   Debug |-> DebugOf(Find(e, f, "DEBUG")),
   Host |-> Lookup(Find(e, f, "HOST"), Defaults.HOST),
   Port |-> PortOf(Find(e, f, "PORT")),
   LogLevel |-> ToUpper(Lookup(Find(e, f, "LOG_LEVEL"), Defaults.LOG_LEVEL)),
   LogFormat |-> Lookup(Find(e, f, "LOG_FORMAT"), Defaults.LOG_FORMAT)]

\* validate.Struct: the fields of c whose tag is violated
FailingFields(c) ==
  {n \in {"AppName"} : ~Required(c.AppName)}
    \cup {n \in {"AppVersion"} : ~Required(c.AppVersion)}
    \cup {n \in {"Host"} : ~Required(c.Host)}
    \cup {n \in {"Port"} : ~ValidPort(c.Port)}
    \cup {n \in {"LogLevel"} : ~ValidLogLevel(c.LogLevel)}
    \cup {n \in {"LogFormat"} : ~ValidLogFormat(c.LogFormat)}

\* a Load that hands out the settings together with the validation error
LoadResult_KeepsConfig(e, f) ==
  IF Undecodable(e, f) # {}
  THEN [cfg |-> Nil,
        err |-> Some([kind |-> "unmarshal", fields |-> Undecodable(e, f)])]
  ELSE IF FailingFields(Decoded(e, f)) # {}
  THEN [cfg |-> Some(Decoded(e, f)),
        err |-> Some([kind |-> "validation",
                      fields |-> FailingFields(Decoded(e, f))])]
  ELSE [cfg |-> Some(Decoded(e, f)), err |-> Nil]

\* Load, lines 61-75: the two results (*Config, error) for environment e and
\* .env file f
LoadResult(e, f) ==
  IF Undecodable(e, f) # {}
  THEN [cfg |-> Nil,
        err |-> Some([kind |-> "unmarshal", fields |-> Undecodable(e, f)])]
  ELSE IF FailingFields(Decoded(e, f)) # {}
  THEN [cfg |-> Nil,
        err |-> Some([kind |-> "validation",
                      fields |-> FailingFields(Decoded(e, f))])]
  ELSE [cfg |-> Some(Decoded(e, f)), err |-> Nil]

\* Load: <<config>> when decoding and validation succeed, Nil (with an
\* error) otherwise
Load(e, f) == LoadResult(e, f).cfg

----------------------------------------------------------------------------
(* The inputs of the configuration tests (config_test.go): t.Setenv on one *)
(* or more keys, optionally a .env file, then Load.                        *)

DigitChar == <<"0", "1", "2", "3", "4", "5", "6", "7", "8", "9">>

\* the decimal numeral of n, as the tests write it into PORT
RECURSIVE Itoa(_)
Itoa(n) ==
  IF n < 10 THEN <<DigitChar[n + 1]>>
  ELSE Append(Itoa(n \div 10), DigitChar[(n % 10) + 1])

PortSamples ==
  (0..20) \cup {80, 99, 100, 443, 999, 1000, 8000, 8080, 9000, 9999, 10000, 32768}
    \cup (65530..65540)

UpperToLower ==
  ("A" :> "a") @@ ("B" :> "b") @@ ("C" :> "c") @@ ("D" :> "d") @@
  ("E" :> "e") @@ ("F" :> "f") @@ ("G" :> "g") @@ ("I" :> "i") @@
  ("L" :> "l") @@ ("N" :> "n") @@ ("O" :> "o") @@ ("R" :> "r") @@
  ("T" :> "t") @@ ("U" :> "u") @@ ("W" :> "w")

LevelNames == {S_DEBUG, S_INFO, S_WARNING, S_ERROR, S_CRITICAL}

\* every upper/lower-case combination of a name
CaseVariants(n) ==
  { [i \in 1..Len(n) |-> IF i \in L THEN UpperToLower[n[i]] ELSE n[i]] :
      L \in SUBSET (1..Len(n)) }

LevelSamples ==
  UNION {CaseVariants(n) : n \in LevelNames}
    \cup { S_WARN, S_FATAL, <<"T", "R", "A", "C", "E">>, <<"I", "N", "F">>,
           <<"I", "N", "F", "O", "S">>, <<" ", "I", "N", "F", "O">>,
           <<"1", "N", "F", "O">>, <<"w", "a", "r", "n">>,
           <<"I", "N", "V", "A", "L", "I", "D">> }

FormatSamples ==
  { S_json, S_text, <<"J", "S", "O", "N">>, <<"T", "E", "X", "T">>,
    <<"J", "s", "o", "n">>, <<"x", "m", "l">>, <<"j", "s", "o", "n", " ">>,
    <<"t", "x", "t">>, <<"c", "o", "n", "s", "o", "l", "e">> }

\* several keys at once, set in the environment, in the .env file or both
MixedEnvs ==
  [APP_NAME : {Nil, Some("Test Server")}, APP_VERSION : {Nil, Some("2.0.0")},
   HOST : {Nil, Some("127.0.0.1")},
   PORT : {Nil, Some(<<"9", "0", "0", "0">>), Some(<<"0">>)},
   LOG_LEVEL : {Nil, Some(<<"d", "e", "b", "u", "g">>)},
   LOG_FORMAT : {Nil, Some(S_text)},
   DEBUG : {Nil, Some(<<"t", "r", "u", "e">>)}]

MixedFiles ==
  [APP_NAME : {Nil, Some("File App")}, APP_VERSION : {Nil},
   HOST : {Nil, Some("localhost")},
   PORT : {Nil, Some(<<"8", "0", "8", "0">>)},
   LOG_LEVEL : {Nil, Some(S_ERROR)},
   LOG_FORMAT : {Nil, Some(S_json), Some(<<"x", "m", "l">>)},
   DEBUG : {Nil, Some(<<"0">>)}]

\* the pairs <<environment, .env file>> the tests run Load with
LoadCases ==
  { <<[Unset EXCEPT !.PORT = Some(Itoa(p))], Nil>> : p \in PortSamples }
    \cup { <<[Unset EXCEPT !.LOG_LEVEL = Some(l)], Nil>> : l \in LevelSamples }
    \cup { <<[Unset EXCEPT !.LOG_FORMAT = Some(f)], Nil>> : f \in FormatSamples }
    \cup { <<e, Nil>> : e \in Environments }
    \cup { <<e, Some(f)>> : e \in MixedEnvs, f \in MixedFiles }

----------------------------------------------------------------------------
(* pkg/logger: parseLevel and New. *)

\* a parser without the case for CRITICAL
parseLevel_NoCritical(level) ==
  CASE level = S_DEBUG -> "DebugLevel"
    [] level = S_INFO -> "InfoLevel"
    [] level \in {S_WARNING, S_WARN} -> "WarnLevel"
    [] level = S_ERROR -> "ErrorLevel"
    [] level = S_FATAL -> "FatalLevel"
    [] OTHER -> "InfoLevel"

parseLevel(level) ==
  CASE level = S_DEBUG -> "DebugLevel"
    [] level = S_INFO -> "InfoLevel"
    [] level \in {S_WARNING, S_WARN} -> "WarnLevel"
    [] level = S_ERROR -> "ErrorLevel"
    [] level \in {S_CRITICAL, S_FATAL} -> "FatalLevel"
    [] OTHER -> "InfoLevel"

\* the logger built by New for a level and a format
LoggerNew(level, format) ==
  [level |-> parseLevel(level),
   encoding |-> IF format = S_json THEN "json" ELSE "console"]

\* a parser that rejects the names it has no case for
parseLevelErr_Strict(level) ==
  IF level \in {S_DEBUG, S_INFO, S_WARNING, S_WARN, S_ERROR, S_CRITICAL, S_FATAL}
  THEN Nil
  ELSE Some("unknown level")

\* the error result of parseLevel: nil on every path, the default included
parseLevelErr(level) == Nil

\* logger.New(c): the parser's error if it reports one, else the error of
\* zapConfig.Build (buildOk = FALSE), else the logger
LoggerNewResult(c, buildOk) ==
  IF parseLevelErr(c.Level) # Nil
  THEN [logger |-> Nil, err |-> parseLevelErr(c.Level)]
  ELSE IF ~buildOk
       THEN [logger |-> Nil, err |-> Some("build")]
       ELSE [logger |-> Some(LoggerNew(c.Level, c.Format)), err |-> Nil]

\* the logger.Config values New is called with: every case variant of the
\* level names, the aliases, unknown names and the empty string
LoggerConfigs ==
  [Level : LevelSamples \cup {<<>>}, Format : {S_json, S_text, <<"x", "m", "l">>}]

\* zapcore.Level, in the order of its values
LevelRank ==
  [DebugLevel |-> 0, InfoLevel |-> 1, WarnLevel |-> 2, ErrorLevel |-> 3,
   FatalLevel |-> 4]

\* the level gate of a logger: a call at level lvl is written when lvl is at
\* or above the level the logger was built with
Enabled(l, lvl) == LevelRank[lvl] >= LevelRank[l.level]

\* what a call of Infow/Errorw/Fatalw leaves in the output lg
Write(l, lvl, lg, entry) == IF Enabled(l, lvl) THEN Append(lg, entry) ELSE lg

----------------------------------------------------------------------------
(* internal/core/dependencies: the container and its teardown. *)

\* NewContainer: config, logger and a pooled HTTP client without idle
\* connections yet
NewContainer(c, l) ==
  [Config |-> c, Logger |-> l, HTTPClient |-> Some([idle |-> 0])]

\* a teardown that drops the client reference after closing it
Close_DropsClient(c, syncErr) ==
  IF c.HTTPClient = Nil \/ c.Logger = Nil
  THEN [panic |-> TRUE, err |-> FALSE, container |-> c, calls |-> <<>>]
  ELSE [panic |-> FALSE, err |-> syncErr,
        container |-> [c EXCEPT !.HTTPClient = Nil],
        calls |-> <<"CloseIdleConnections", "Sync">>]

\* a teardown that flushes first and gives up when the flush fails
Close_SyncFirst(c, syncErr) ==
  IF c.HTTPClient = Nil \/ c.Logger = Nil
  THEN [panic |-> TRUE, err |-> FALSE, container |-> c, calls |-> <<>>]
  ELSE IF syncErr
       THEN [panic |-> FALSE, err |-> TRUE, container |-> c,
             calls |-> <<"Sync">>]
       ELSE [panic |-> FALSE, err |-> FALSE,
             container |-> [c EXCEPT !.HTTPClient = Some([idle |-> 0])],
             calls |-> <<"Sync", "CloseIdleConnections">>]

\* Container.Close: dereferences c.HTTPClient and c.Logger (a nil field is a
\* nil-pointer panic), drops the client's idle connections, then calls
\* Logger.Sync and returns its result; calls lists what it called, in order
Close(c, syncErr) ==
  IF c.HTTPClient = Nil \/ c.Logger = Nil
  THEN [panic |-> TRUE, err |-> FALSE, container |-> c, calls |-> <<>>]
  ELSE [panic |-> FALSE, err |-> syncErr,
        container |-> [c EXCEPT !.HTTPClient = Some([idle |-> 0])],
        calls |-> <<"CloseIdleConnections", "Sync">>]

\* what one call of Close did: the idle connections of the client before and
\* after it, the calls it made and the result of the flush
CloseRecord(c, syncErr) ==
  [idleBefore |-> IF c.HTTPClient = Nil THEN 0 ELSE c.HTTPClient[1].idle,
   idleAfter |-> IF Close(c, syncErr).container.HTTPClient = Nil THEN 0
                 ELSE Close(c, syncErr).container.HTTPClient[1].idle,
   calls |-> Close(c, syncErr).calls,
   sync |-> syncErr]

----------------------------------------------------------------------------
(* internal/interfaces/http: the router, its middleware and its route. *)

\* constants.CORSAllowOrigins
CORSAllowOrigins ==
  <<"http://localhost:3000", "http://localhost:8000", "http://localhost:8080">>

\* the requests sent to the router: method, path and Origin header (Nil when
\* the request carries none)
Methods == {"GET", "POST", "OPTIONS"}

Paths == {"/health", "/missing", "/health/"}

Origins ==
  {Nil, Some("http://localhost:8080"), Some("https://localhost:3000")}

\* the environments the router is built in: INFO by default, or a level
\* above it
HTTPEnvironments ==
  { [Unset EXCEPT !.LOG_LEVEL = l] : l \in {Nil, Some(S_ERROR)} }

\* http.Header.Get: the empty string for an absent header
HeaderGet(h) == IF h = Nil THEN "" ELSE h[1]

\* the loop of CORS over the allow-list: exact string equality
AllowedOrigin(origin) ==
  \E i \in DOMAIN CORSAllowOrigins : origin = CORSAllowOrigins[i]

\* the response headers before any middleware ran
NoHeaders ==
  [AllowOrigin |-> Nil, AllowCredentials |-> Nil, AllowMethods |-> Nil,
   AllowHeaders |-> Nil]

\* a policy that allows credentials to allow-listed origins only
CORSHeaders_CredentialsForListed(origin) ==
  [AllowOrigin |-> IF AllowedOrigin(origin) THEN Some(origin) ELSE Nil,
   AllowCredentials |-> IF AllowedOrigin(origin) THEN Some("true") ELSE Nil,
   AllowMethods |-> Some("GET, POST, PUT, DELETE, PATCH, OPTIONS"),
   AllowHeaders |-> Some("*")]

\* the headers CORS sets: Allow-Origin only for an allow-listed origin, the
\* three others always
CORSHeaders(origin) ==
  [AllowOrigin |-> IF AllowedOrigin(origin) THEN Some(origin) ELSE Nil,
   AllowCredentials |-> Some("true"),
   AllowMethods |-> Some("GET, POST, PUT, DELETE, PATCH, OPTIONS"),
   AllowHeaders |-> Some("*")]

\* a policy that lets preflight requests through
Preflight_PassThrough(method) == FALSE

\* CORS aborts the chain for preflight requests
Preflight(method) == method = "OPTIONS"

\* a router that also answers POST /health
Route_AnyMethod(method, path) ==
  CASE path = "/health" -> "Check"
    [] method = "GET" /\ path = "/health/" -> "RedirectTrailingSlash"
    [] OTHER -> "NoRoute"

\* the router's match: GET /health is the only route, registered in the GET
\* tree.  gin.New() leaves RedirectTrailingSlash on, so a GET of the same path
\* with a trailing slash is redirected by the router; HandleMethodNotAllowed
\* is off, so everything else goes to the 404 handler
Route(method, path) ==
  CASE method = "GET" /\ path = "/health" -> "Check"
    [] method = "GET" /\ path = "/health/" -> "RedirectTrailingSlash"
    [] OTHER -> "NoRoute"

\* NewHealthHandler(version) called at instant t
NewHealthHandler(version, t) == [startupTime |-> t, version |-> version]

\* Time.Sub on the monotonic readings of two instants
Sub(t, u) == t - u

\* a response that measures from the request back to the startup
HealthCheckResponse_Reversed(h, currentTime) ==
  [Status |-> "healthy", Version |-> h.version,
   UptimeSeconds |-> Sub(h.startupTime, currentTime),
   Timestamp |-> currentTime]

\* the body Check builds from the handler and the instant it read; the
\* uptime is in ticks of the clock
HealthCheckResponse(h, currentTime) ==
  [Status |-> "healthy", Version |-> h.version,
   UptimeSeconds |-> Sub(currentTime, h.startupTime),
   Timestamp |-> currentTime]

\* a constructor that always selects release mode
SetMode_AlwaysRelease(mode, debug) == "release"

\* server.go:27-29: gin.SetMode(gin.ReleaseMode) unless Debug; the mode is
\* process-wide and is otherwise left as it is
SetMode(mode, debug) == IF ~debug THEN "release" ELSE mode

\* a router without panic recovery
Middleware_NoRecovery == <<"CORS", "Logger">>

\* the handlers New installs with router.Use, in order
Middleware == <<"Recovery", "CORS", "Logger">>

\* the call log.Infow("http_request", ...) of the Logger middleware, for
\* request i in state r
AccessEntry(lg, i, r) ==
  Append(lg, [msg |-> "http_request", req |-> i, method |-> r.method,
              path |-> r.path, status |-> r.status])

----------------------------------------------------------------------------
(* The process. *)

VARIABLES
  env,            \* the process environment, fixed at process start
  dotenv,         \* the .env file of the working directory, Nil without one
  loadErr,        \* the error returned by config.Load
  pc,             \* position of the main goroutine
  gpc,            \* position of the goroutine running srv.ListenAndServe
  gerr,           \* the error ListenAndServe returned
  cfg,            \* *config.Config returned by Load
  logger,         \* *logger.Logger returned by provideLogger
  container,      \* *dependencies.Container
  server,         \* *Server returned by New
  ginMode,        \* process-wide gin mode
  listener,       \* the TCP listener of srv
  inShutdown,     \* srv has been told to shut down
  lnerr,          \* closing the listener in Shutdown reported an error
  notify,         \* signal.Notify(quit, ...) has been called
  quit,           \* number of signals buffered in quit (capacity 1)
  signals,        \* signals delivered to the process so far
  graceExpired,   \* the context of Shutdown has passed its deadline
  shutdownResult, \* what srv.Shutdown returned
  atShutdown,     \* the requests that were in flight when Shutdown was called
  accepted,       \* connections accepted so far
  inflight,       \* requests whose handler is running
  responded,      \* requests that received their response
  aborted,        \* requests cut off without a response
  exitCode,       \* Nil while the process runs, <<status>> once it exited
  logs,           \* events written through the zap logger and the std log
  trace,          \* calls made by the main goroutine, in order
  closeCalls,     \* completed or panicked calls of Container.Close
  closeErrs,      \* the error result of each Close call, in order
  panicked,       \* a Close call panicked
  reqs,           \* the requests handed to router.ServeHTTP, in order
  accessLog,      \* the http_request entries written by the Logger middleware
  now,            \* the monotonic clock read by time.Now()
  faults,         \* the run injects panics into the health handler
  health,         \* *HealthHandler registered for GET /health
  built,          \* Config.Debug of the container of each call of New, in order
  lcfg,           \* the logger.Config given to logger.New
  lerr,           \* the error logger.New returned
  closeLog        \* what each call of Container.Close did, in order

vars ==
  <<env, dotenv, loadErr, pc, gpc, gerr, cfg, logger, container, server, ginMode, listener,
    inShutdown, lnerr, notify, quit, signals, graceExpired, shutdownResult,
    atShutdown, accepted, inflight, responded, aborted, exitCode, logs, trace,
    closeCalls, closeErrs, panicked, reqs, accessLog, now, faults, health,
    built, lcfg, lerr, closeLog>>

inVars == <<env, dotenv, loadErr>>

httpVars == <<reqs, accessLog>>

clockVars == <<now, faults>>

newVars == <<health, built>>

lgVars == <<lcfg, lerr>>

srvVars ==
  <<listener, inShutdown, lnerr, graceExpired, shutdownResult, atShutdown>>

reqVars == <<accepted, inflight, responded, aborted>>

sigVars == <<notify, quit, signals>>

buildVars == <<cfg, logger, container, server, ginMode>>

closeVars == <<closeCalls, closeErrs, panicked, closeLog>>

goVars == <<gpc, gerr>>

Alive == exitCode = Nil

\* the process before main has run, whatever its environment
Fresh ==
  /\ dotenv = Nil
  /\ loadErr = Nil
  /\ pc = "main"
  /\ gpc = "none"
  /\ gerr = "none"
  /\ cfg = Nil
  /\ logger = Nil
  /\ container = Nil
  /\ server = Nil
  /\ ginMode = "debug"
  /\ listener = "unbound"
  /\ inShutdown = FALSE
  /\ lnerr = FALSE
  /\ notify = FALSE
  /\ quit = 0
  /\ signals = 0
  /\ graceExpired = FALSE
  /\ shutdownResult = "none"
  /\ atShutdown = {}
  /\ accepted = 0
  /\ inflight = {}
  /\ responded = {}
  /\ aborted = {}
  /\ exitCode = Nil
  /\ logs = <<>>
  /\ trace = <<>>
  /\ closeCalls = 0
  /\ closeErrs = <<>>
  /\ panicked = FALSE
  /\ reqs = <<>>
  /\ accessLog = <<>>
  /\ now = 0
  /\ health = Nil
  /\ built = <<>>
  /\ lcfg = Nil
  /\ lerr = Nil
  /\ closeLog = <<>>

Init ==
  /\ env \in Environments
  /\ faults = FALSE
  /\ Fresh

\* os.Exit(code): the process ends, open connections are cut
Exit(code) ==
  /\ exitCode' = Some(code)
  /\ aborted' = aborted \cup inflight
  /\ inflight' = {}
  /\ UNCHANGED <<accepted, responded>>

----------------------------------------------------------------------------
(* dependencies.InitializeContainer, the Wire injector over config.Load,   *)
(* provideLogger and NewContainer, called by main.                         *)

InitializeContainer_Load ==
  /\ Alive /\ pc = "main"
  /\ trace' = Append(trace, "config.Load")
  /\ cfg' = Load(env, dotenv)
  /\ loadErr' = LoadResult(env, dotenv).err
  /\ pc' = IF Load(env, dotenv) = Nil THEN "init_error" ELSE "cfg_loaded"
  /\ UNCHANGED <<env, dotenv, httpVars, clockVars, newVars, lgVars, goVars, logger, container, server, ginMode, srvVars,
                 sigVars, reqVars, exitCode, logs, closeVars>>

\* provideLogger -> logger.New; zapConfig.Build may report an error
InitializeContainer_provideLogger ==
  /\ Alive /\ pc = "cfg_loaded"
  /\ trace' = Append(trace, "logger.New")
  /\ \E buildOk \in BOOLEAN :
       LET c == [Level |-> cfg[1].LogLevel, Format |-> cfg[1].LogFormat]
           r == LoggerNewResult(c, buildOk)
       IN  /\ lcfg' = Some(c)
           /\ logger' = r.logger
           /\ lerr' = r.err
           /\ pc' = IF r.err = Nil THEN "logger_built" ELSE "init_error"
  /\ UNCHANGED <<inVars, httpVars, clockVars, newVars, goVars, cfg, container,
                 server, ginMode, srvVars, sigVars, reqVars, exitCode, logs,
                 closeVars>>

InitializeContainer_NewContainer ==
  /\ Alive /\ pc = "logger_built"
  /\ trace' = Append(trace, "NewContainer")
  /\ container' = Some(NewContainer(cfg[1], logger))
  /\ pc' = "container_built"
  /\ UNCHANGED <<inVars, httpVars, clockVars, newVars, lgVars, goVars, cfg, logger, server, ginMode, srvVars,
                 sigVars, reqVars, exitCode, logs, closeVars>>

\* main.go:18-20: log.Fatalf("Failed to initialize dependencies: ...")
main_InitializeFailed ==
  /\ Alive /\ pc = "init_error"
  /\ logs' = Append(logs, "Failed to initialize dependencies")
  /\ pc' = "exited"
  /\ Exit(1)
  /\ UNCHANGED <<inVars, httpVars, clockVars, newVars, lgVars, goVars, buildVars, srvVars, sigVars, trace, closeVars>>

----------------------------------------------------------------------------
(* internal/interfaces/http: New and Server.Start. *)

\* New: release mode unless Debug, router with middleware and GET /health
New ==
  /\ Alive /\ pc = "container_built"
  /\ trace' = Append(trace, "httpserver.New")
  /\ ginMode' = SetMode(ginMode, container[1].Config.Debug)
  /\ built' = Append(built, container[1].Config.Debug)
  /\ health' = Some(NewHealthHandler(container[1].Config.AppVersion, now))
  /\ server' = Some([container |-> container[1], handlers |-> Middleware])
  /\ pc' = "server_built"
  /\ UNCHANGED <<inVars, httpVars, clockVars, lgVars, goVars, cfg, logger,
                 container, srvVars, sigVars, reqVars, exitCode, logs,
                 closeVars>>

\* Start, lines 55-87: build srv, log application_startup, spawn the
\* goroutine that runs srv.ListenAndServe
Start_Serve ==
  /\ Alive /\ pc = "server_built"
  /\ trace' = Append(trace, "Start")
  /\ logs' = Write(logger[1], "InfoLevel", logs, "application_startup")
  /\ gpc' = "spawned"
  /\ pc' = "serving"
  /\ UNCHANGED <<inVars, httpVars, clockVars, newVars, lgVars, gerr, buildVars, srvVars, sigVars, reqVars, exitCode,
                 closeVars>>

\* a Start that waits for the listener before it reports the startup complete
Start_Notify_AfterBind ==
  /\ Alive /\ pc = "serving" /\ listener = "open"
  /\ logs' = Write(logger[1], "InfoLevel", logs, "application_startup_complete")
  /\ notify' = TRUE
  /\ pc' = "wait_quit"
  /\ UNCHANGED <<inVars, httpVars, clockVars, newVars, lgVars, goVars,
                 buildVars, srvVars, quit, signals, reqVars, exitCode, trace,
                 closeVars>>

\* Start, lines 89-93: log application_startup_complete, create quit and
\* register it for SIGINT and SIGTERM; the next statement blocks on quit
Start_Notify ==
  /\ Alive /\ pc = "serving"
  /\ logs' = Write(logger[1], "InfoLevel", logs, "application_startup_complete")
  /\ notify' = TRUE
  /\ pc' = "wait_quit"
  /\ UNCHANGED <<inVars, httpVars, clockVars, newVars, lgVars, goVars, buildVars, srvVars, quit, signals, reqVars,
                 exitCode, trace, closeVars>>

\* delivery of SIGINT or SIGTERM to the registered channel; the send does
\* not block, a signal that finds the buffer full is dropped
Signal ==
  /\ Alive /\ notify /\ signals < MaxSignals
  /\ signals' = signals + 1
  /\ quit' = 1
  /\ UNCHANGED <<inVars, httpVars, clockVars, newVars, lgVars, pc, goVars, buildVars, srvVars, notify, reqVars,
                 exitCode, logs, trace, closeVars>>

\* a shutdown step that never tells srv to stop: the listener stays open
Start_Shutdown_ListenerLeftOpen ==
  /\ Alive /\ pc = "wait_quit" /\ quit = 1
  /\ quit' = 0
  /\ logs' = Write(logger[1], "InfoLevel", logs, "application_shutdown_started")
  /\ trace' = Append(trace, "srv.Shutdown")
  /\ inShutdown' = FALSE
  /\ listener' = listener
  /\ lnerr' = FALSE
  /\ atShutdown' = inflight
  /\ pc' = "shutting_down"
  /\ UNCHANGED <<inVars, httpVars, clockVars, newVars, lgVars, goVars, buildVars, graceExpired, shutdownResult, notify,
                 signals, reqVars, exitCode, closeVars>>

\* a shutdown step that does not wait for a signal on quit
Start_Shutdown_NoWait ==
  /\ Alive /\ pc = "wait_quit"
  /\ quit' = 0
  /\ logs' = Write(logger[1], "InfoLevel", logs, "application_shutdown_started")
  /\ trace' = Append(trace, "srv.Shutdown")
  /\ inShutdown' = TRUE
  /\ listener' = IF listener = "open" THEN "closed" ELSE listener
  /\ lnerr' \in (IF listener = "open" THEN BOOLEAN ELSE {FALSE})
  /\ atShutdown' = inflight
  /\ pc' = "shutting_down"
  /\ UNCHANGED <<inVars, httpVars, clockVars, newVars, lgVars, goVars, buildVars, graceExpired, shutdownResult, notify,
                 signals, reqVars, exitCode, closeVars>>

\* Start, lines 94-102: receive from quit, log application_shutdown_started,
\* call srv.Shutdown with a 30s context.  Shutdown first marks the server as
\* shutting down and closes its listeners.
Start_Shutdown ==
  /\ Alive /\ pc = "wait_quit" /\ quit = 1
  /\ quit' = 0
  /\ logs' = Write(logger[1], "InfoLevel", logs, "application_shutdown_started")
  /\ trace' = Append(trace, "srv.Shutdown")
  /\ inShutdown' = TRUE
  /\ listener' = IF listener = "open" THEN "closed" ELSE listener
  /\ lnerr' \in (IF listener = "open" THEN BOOLEAN ELSE {FALSE})
  /\ atShutdown' = inflight
  /\ pc' = "shutting_down"
  /\ UNCHANGED <<inVars, httpVars, clockVars, newVars, lgVars, goVars, buildVars, graceExpired, shutdownResult, notify,
                 signals, reqVars, exitCode, closeVars>>

\* a shutdown context without deadline
GraceExpires_NoDeadline ==
  /\ FALSE
  /\ UNCHANGED vars

\* the deadline of context.WithTimeout(..., 30*time.Second) passes
GraceExpires ==
  /\ Alive /\ pc = "shutting_down" /\ ~graceExpired
  /\ graceExpired' = TRUE
  /\ UNCHANGED <<inVars, httpVars, clockVars, newVars, lgVars, pc, goVars, buildVars, listener, inShutdown, lnerr,
                 shutdownResult, atShutdown, sigVars, reqVars, exitCode, logs, trace,
                 closeVars>>

\* a shutdown that returns without waiting for the active connections
Shutdown_Drained_NoWait ==
  /\ Alive /\ pc = "shutting_down"
  /\ trace' = Append(trace, "srv.Shutdown returned")
  /\ IF lnerr
     THEN /\ shutdownResult' = "listener_error"
          /\ logs' = Write(logger[1], "ErrorLevel", logs, "server_shutdown_error")
          /\ pc' = "start_error"
     ELSE /\ shutdownResult' = "nil"
          /\ logs' = logs
          /\ pc' = "closing"
  /\ UNCHANGED <<inVars, httpVars, clockVars, newVars, lgVars, goVars, buildVars, listener, inShutdown, lnerr,
                 graceExpired, atShutdown, sigVars, reqVars, exitCode, closeVars>>

\* srv.Shutdown finds no active connection and returns the listener's close
\* error (nil when there is none); Start, lines 102-105
Shutdown_Drained ==
  /\ Alive /\ pc = "shutting_down" /\ inflight = {}
  /\ trace' = Append(trace, "srv.Shutdown returned")
  /\ IF lnerr
     THEN /\ shutdownResult' = "listener_error"
          /\ logs' = Write(logger[1], "ErrorLevel", logs, "server_shutdown_error")
          /\ pc' = "start_error"
     ELSE /\ shutdownResult' = "nil"
          /\ logs' = logs
          /\ pc' = "closing"
  /\ UNCHANGED <<inVars, httpVars, clockVars, newVars, lgVars, goVars, buildVars, listener, inShutdown, lnerr,
                 graceExpired, atShutdown, sigVars, reqVars, exitCode, closeVars>>

\* srv.Shutdown sees ctx.Done() while waiting for connections and returns
\* ctx.Err(); it closes no connection.  Start logs and returns the error.
Shutdown_DeadlineExceeded ==
  /\ Alive /\ pc = "shutting_down" /\ graceExpired
  /\ trace' = Append(trace, "srv.Shutdown returned")
  /\ shutdownResult' = "deadline_exceeded"
  /\ logs' = Write(logger[1], "ErrorLevel", logs, "server_shutdown_error")
  /\ pc' = "start_error"
  /\ UNCHANGED <<inVars, httpVars, clockVars, newVars, lgVars, goVars, buildVars, listener, inShutdown, lnerr,
                 graceExpired, atShutdown, sigVars, reqVars, exitCode, closeVars>>

\* Start, lines 107-114: s.container.Close(), then return its error or nil
Start_Close ==
  /\ Alive /\ pc = "closing"
  /\ trace' = Append(trace, "container.Close")
  /\ closeCalls' = closeCalls + 1
  /\ \E syncErr \in BOOLEAN :
       LET r == Close(container[1], syncErr) IN
         /\ panicked' = (panicked \/ r.panic)
         /\ container' = Some(r.container)
         /\ closeErrs' = Append(closeErrs, r.err)
         /\ closeLog' = Append(closeLog, CloseRecord(container[1], syncErr))
         /\ IF r.panic
            THEN /\ logs' = Append(logs, "panic")
                 /\ pc' = "exited"
                 /\ Exit(2)
            ELSE /\ logs' = IF r.err
                            THEN Write(logger[1], "ErrorLevel", logs,
                                       "dependencies_close_error")
                            ELSE Write(logger[1], "InfoLevel", logs,
                                       "application_shutdown_complete")
                 /\ pc' = IF r.err THEN "start_error" ELSE "start_nil"
                 /\ UNCHANGED <<reqVars, exitCode>>
  /\ UNCHANGED <<inVars, httpVars, clockVars, newVars, lgVars, goVars, cfg, logger, server, ginMode, srvVars, sigVars>>

\* main.go:24-26: Start returned an error, log.Fatalf exits with status 1
main_ServerError ==
  /\ Alive /\ pc = "start_error"
  /\ logs' = Append(logs, "Server error")
  /\ pc' = "exited"
  /\ Exit(1)
  /\ UNCHANGED <<inVars, httpVars, clockVars, newVars, lgVars, goVars, buildVars, srvVars, sigVars, trace, closeVars>>

\* main.go:24-27: Start returned nil, main returns, exit status 0
main_Return ==
  /\ Alive /\ pc = "start_nil"
  /\ pc' = "exited"
  /\ Exit(0)
  /\ UNCHANGED <<inVars, httpVars, clockVars, newVars, lgVars, goVars, buildVars, srvVars, sigVars, logs, trace,
                 closeVars>>

----------------------------------------------------------------------------
(* The goroutine of Start, lines 83-87, and the connections it serves. *)

\* srv.ListenAndServe is entered: ErrServerClosed at once when the server is
\* already shutting down, otherwise it goes on to bind
Serve_Enter ==
  /\ Alive /\ gpc = "spawned"
  /\ IF inShutdown
     THEN gpc' = "returned" /\ gerr' = "ErrServerClosed"
     ELSE gpc' = "binding" /\ gerr' = gerr
  /\ UNCHANGED <<inVars, httpVars, clockVars, newVars, lgVars, pc, buildVars, srvVars, sigVars, reqVars, exitCode,
                 logs, trace, closeVars>>

\* net.Listen on host:port fails (bind error), or succeeds; a listener that
\* is registered after Shutdown began is closed again with ErrServerClosed
Serve_Bind ==
  /\ Alive /\ gpc = "binding"
  /\ \E ok \in BOOLEAN :
       IF ~ok
       THEN gpc' = "returned" /\ gerr' = "bind_error" /\ listener' = listener
       ELSE IF inShutdown
       THEN gpc' = "returned" /\ gerr' = "ErrServerClosed" /\ listener' = "closed"
       ELSE gpc' = "accepting" /\ gerr' = gerr /\ listener' = "open"
  /\ UNCHANGED <<inVars, httpVars, clockVars, newVars, lgVars, pc, buildVars, inShutdown, lnerr, graceExpired,
                 shutdownResult, atShutdown, sigVars, reqVars, exitCode, logs, trace,
                 closeVars>>

\* the accept loop takes a new connection and runs the router for it
Serve_Accept ==
  /\ Alive /\ gpc = "accepting" /\ listener = "open"
  /\ accepted < MaxRequests
  /\ accepted' = accepted + 1
  /\ inflight' = inflight \cup {accepted + 1}
  /\ UNCHANGED <<inVars, httpVars, clockVars, newVars, lgVars, pc, goVars, buildVars, srvVars, sigVars, responded,
                 aborted, exitCode, logs, trace, closeVars>>

\* a handler finishes and its response is written
Handler_Complete ==
  /\ Alive
  /\ \E r \in inflight :
       /\ inflight' = inflight \ {r}
       /\ responded' = responded \cup {r}
  /\ UNCHANGED <<inVars, httpVars, clockVars, newVars, lgVars, pc, goVars, buildVars, srvVars, sigVars, accepted,
                 aborted, exitCode, logs, trace, closeVars>>

\* Accept fails: ErrServerClosed when Shutdown closed the listener, the
\* listener's own error otherwise
Serve_AcceptError ==
  /\ Alive /\ gpc = "accepting"
  /\ IF inShutdown
     THEN gerr' = "ErrServerClosed" /\ listener' = listener
     ELSE gerr' = "accept_error" /\ listener' = "closed"
  /\ gpc' = "returned"
  /\ UNCHANGED <<inVars, httpVars, clockVars, newVars, lgVars, pc, buildVars, inShutdown, lnerr, graceExpired,
                 shutdownResult, atShutdown, sigVars, reqVars, exitCode, logs, trace,
                 closeVars>>

\* the check without the exception for http.ErrServerClosed
IsFatalServeError_NoSentinel(e) == e # "none"

\* the error that makes the goroutine call log.Fatalw (server.go:84)
IsFatalServeError(e) == e # "none" /\ e # "ErrServerClosed"

\* server.go:84-86: a non-nil error other than http.ErrServerClosed is
\* logged with Fatalw, which exits with status 1; otherwise the goroutine ends
Serve_Returned ==
  /\ Alive /\ gpc = "returned"
  /\ gpc' = "done"
  /\ IF IsFatalServeError(gerr)
     THEN /\ logs' = Write(logger[1], "FatalLevel", logs, "server_failed")
          /\ Exit(1)
     ELSE /\ logs' = logs
          /\ UNCHANGED <<reqVars, exitCode>>
  /\ UNCHANGED <<inVars, httpVars, clockVars, newVars, lgVars, pc, gerr, buildVars, srvVars, sigVars, trace, closeVars>>

----------------------------------------------------------------------------
(* The container test harness of tests/integration/                        *)
(* dependency_injection_test.go: InitializeContainer, then Close called    *)
(* repeatedly on the same container.                                       *)

Test_Close ==
  /\ Alive /\ pc = "container_built" /\ ~panicked
  /\ closeCalls < MaxCloseCalls
  /\ closeCalls' = closeCalls + 1
  /\ \E syncErr \in BOOLEAN :
       LET r == Close(container[1], syncErr) IN
         /\ panicked' = r.panic
         /\ container' = Some(r.container)
         /\ closeErrs' = Append(closeErrs, r.err)
         /\ closeLog' = Append(closeLog, CloseRecord(container[1], syncErr))
  /\ UNCHANGED <<inVars, httpVars, clockVars, newVars, lgVars, pc, goVars, cfg, logger, server, ginMode, srvVars,
                 sigVars, reqVars, exitCode, logs, trace>>

\* http.Client.Get on the container's client, response body closed: the
\* connection goes back to the client's pool of idle connections
HTTPClient_Get ==
  /\ Alive /\ pc = "container_built" /\ ~panicked
  /\ container[1].HTTPClient # Nil
  /\ container[1].HTTPClient[1].idle < MaxIdle
  /\ container' = Some([container[1] EXCEPT
                          !.HTTPClient = Some([idle |-> @[1].idle + 1])])
  /\ UNCHANGED <<inVars, httpVars, clockVars, newVars, lgVars, pc, goVars,
                 cfg, logger, server, ginMode, srvVars, sigVars, reqVars,
                 exitCode, logs, trace, closeVars>>

----------------------------------------------------------------------------
(* The server tests of tests/integration/server_test.go: containers are    *)
(* built by hand, with Debug chosen by the test, and given to New one      *)
(* after the other in the same process.                                    *)

\* the configuration a test writes down: the defaults with its own Debug
TestConfig(debug) == [Load(Unset, Nil)[1] EXCEPT !.Debug = debug]

InitNew ==
  /\ env = Unset
  /\ faults = FALSE
  /\ Fresh

Test_New ==
  /\ Alive /\ Len(built) < MaxNewCalls
  /\ \E debug \in BOOLEAN :
       LET c == TestConfig(debug)
           l == LoggerNew(c.LogLevel, c.LogFormat)
           k == NewContainer(c, Some(l))
       IN  /\ cfg' = Some(c)
           /\ logger' = Some(l)
           /\ container' = Some(k)
           /\ ginMode' = SetMode(ginMode, k.Config.Debug)
           /\ built' = Append(built, k.Config.Debug)
           /\ health' = Some(NewHealthHandler(k.Config.AppVersion, now))
           /\ server' = Some([container |-> k, handlers |-> Middleware])
  /\ UNCHANGED <<inVars, httpVars, clockVars, lgVars, pc, goVars, srvVars,
                 sigVars, reqVars, exitCode, logs, trace, closeVars>>

----------------------------------------------------------------------------
(* logger.New called directly with a logger.Config, as the tests that build *)
(* their dependencies by hand do.                                           *)

InitLogger ==
  /\ env = Unset
  /\ faults = FALSE
  /\ Fresh

Test_LoggerNew ==
  /\ pc = "main"
  /\ \E c \in LoggerConfigs, buildOk \in BOOLEAN :
       LET r == LoggerNewResult(c, buildOk)
       IN  /\ lcfg' = Some(c)
           /\ logger' = r.logger
           /\ lerr' = r.err
  /\ pc' = "logger_returned"
  /\ UNCHANGED <<inVars, httpVars, clockVars, newVars, goVars, cfg, container,
                 server, ginMode, srvVars, sigVars, reqVars, exitCode, logs,
                 trace, closeVars>>

----------------------------------------------------------------------------
(* The configuration tests of internal/config/config_test.go: the          *)
(* environment (and .env file) is prepared, then Load is called once.      *)

InitLoad ==
  /\ \E c \in LoadCases : env = c[1] /\ dotenv = c[2]
  /\ loadErr = Nil
  /\ pc = "main"
  /\ gpc = "none"
  /\ gerr = "none"
  /\ cfg = Nil
  /\ logger = Nil
  /\ container = Nil
  /\ server = Nil
  /\ ginMode = "debug"
  /\ listener = "unbound"
  /\ inShutdown = FALSE
  /\ lnerr = FALSE
  /\ notify = FALSE
  /\ quit = 0
  /\ signals = 0
  /\ graceExpired = FALSE
  /\ shutdownResult = "none"
  /\ atShutdown = {}
  /\ accepted = 0
  /\ inflight = {}
  /\ responded = {}
  /\ aborted = {}
  /\ exitCode = Nil
  /\ logs = <<>>
  /\ trace = <<>>
  /\ closeCalls = 0
  /\ closeErrs = <<>>
  /\ panicked = FALSE
  /\ reqs = <<>>
  /\ accessLog = <<>>
  /\ now = 0
  /\ faults = FALSE
  /\ health = Nil
  /\ built = <<>>
  /\ lcfg = Nil
  /\ lerr = Nil
  /\ closeLog = <<>>

Test_Load ==
  /\ pc = "main"
  /\ cfg' = LoadResult(env, dotenv).cfg
  /\ loadErr' = LoadResult(env, dotenv).err
  /\ pc' = "load_returned"
  /\ UNCHANGED <<env, dotenv, httpVars, clockVars, newVars, lgVars, goVars, logger, container, server, ginMode,
                 srvVars, sigVars, reqVars, exitCode, logs, trace, closeVars>>

----------------------------------------------------------------------------
(* The router serving requests: Engine.ServeHTTP runs the installed handlers
   in order, then the matched route (or the 404 handler), each request on its
   own goroutine. *)

httpFrame ==
  <<inVars, pc, goVars, buildVars, srvVars, sigVars, reqVars, exitCode, logs,
    trace, closeVars, clockVars, newVars, lgVars>>

\* the router is exercised with handler panics injected
InitHTTP ==
  /\ env \in HTTPEnvironments
  /\ faults = TRUE
  /\ Fresh

\* the router built by New
Router == server[1]

\* the handler request r is about to enter
Current(r) ==
  IF r.idx <= Len(Router.handlers) THEN Router.handlers[r.idx] ELSE "route"

\* the chain unwinds normally: the code after c.Next() of the Logger runs if
\* the Logger was entered
Unwind(r) == IF "Logger" \in r.ran THEN "after" ELSE "done"

\* a request leaves the chain at instant t
Finished(r, t) == [r EXCEPT !.pc = "done", !.finished = Some(t)]

\* a handler returns normally at instant t: the Logger's code after c.Next()
\* is still to run if the Logger was entered
Return(r, t) == IF Unwind(r) = "done" THEN Finished(r, t) ELSE [r EXCEPT !.pc = "after"]

\* gin.Recovery at the head of the chain: defers the recover and calls
\* c.Next()
Recovery_Next(r) ==
  IF Current(r) = "Recovery"
  THEN [r EXCEPT !.ran = @ \cup {"Recovery"}, !.idx = @ + 1]
  ELSE r

\* Engine.ServeHTTP(w, req) for a request drawn from ms, ps and os: the
\* router looks the path up in the tree of the method; a trailing-slash
\* redirect (301) is answered at once, before any installed handler runs,
\* every other request enters the chain, through gin.Recovery if that is
\* its first handler.  The writer's status is 200 until a handler sets it
ServeHTTP(ms, ps, os) ==
  /\ Alive /\ pc = "server_built"
  /\ Len(reqs) < MaxHTTPRequests
  /\ \E m \in ms, p \in ps, o \in os :
       LET r == [method |-> m, path |-> p, origin |-> o, pc |-> "chain",
                 idx |-> 1, status |-> 200, hdr |-> NoHeaders, ran |-> {},
                 panic |-> FALSE, arrived |-> now, currentTime |-> Nil,
                 finished |-> Nil, body |-> Nil]
       IN  reqs' = Append(reqs,
                     IF Route(m, p) = "RedirectTrailingSlash"
                     THEN Finished([r EXCEPT !.status = 301,
                                             !.ran = {"RedirectTrailingSlash"}],
                                   now)
                     ELSE Recovery_Next(r))
  /\ UNCHANGED <<httpFrame, accessLog>>

\* requests of any method, path and origin
Router_ServeHTTP == ServeHTTP(Methods, Paths, Origins)

\* the requests of the health-endpoint tests: GET /health without Origin
Health_ServeHTTP == ServeHTTP({"GET"}, {"/health"}, {Nil})

\* time passes
Tick ==
  /\ Alive /\ now < MaxClock
  /\ now' = now + 1
  /\ UNCHANGED <<inVars, httpVars, faults, newVars, lgVars, pc, goVars,
                 buildVars, srvVars, sigVars, reqVars, exitCode, logs, trace,
                 closeVars>>

\* middleware.CORS: sets the headers, then either aborts a preflight request
\* with 204 or calls c.Next()
CORS(i) ==
  /\ Alive /\ reqs[i].pc = "chain" /\ Current(reqs[i]) = "CORS"
  /\ LET r == [reqs[i] EXCEPT !.hdr = CORSHeaders(HeaderGet(reqs[i].origin)),
                              !.ran = @ \cup {"CORS"}]
     IN  reqs' = [reqs EXCEPT ![i] =
                    IF Preflight(r.method)
                    THEN Return([r EXCEPT !.status = 204], now)
                    ELSE [r EXCEPT !.idx = @ + 1]]
  /\ UNCHANGED <<httpFrame, accessLog>>

\* middleware.Logger up to c.Next(): takes the start time
Logger_Next(i) ==
  /\ Alive /\ reqs[i].pc = "chain" /\ Current(reqs[i]) = "Logger"
  /\ reqs' = [reqs EXCEPT ![i].ran = @ \cup {"Logger"}, ![i].idx = @ + 1]
  /\ UNCHANGED <<httpFrame, accessLog>>

\* the end of the chain.  For GET /health HealthHandler.Check starts: it
\* reads the clock (constants.go:83).  In a run that injects faults it may
\* panic instead, before it writes: the panic unwinds past the Logger's
\* frame to the recover deferred by gin.Recovery, which answers 500; without
\* that recover net/http cuts the connection and the request gets no
\* response.  Any other request gets gin's 404
Route_Handle(i) ==
  /\ Alive /\ reqs[i].pc = "chain" /\ Current(reqs[i]) = "route"
  /\ LET r == reqs[i]
         h == Route(r.method, r.path)
     IN  \E panics \in (IF faults /\ h = "Check" THEN BOOLEAN ELSE {FALSE}) :
           reqs' = [reqs EXCEPT ![i] =
             IF panics
             THEN IF "Recovery" \in r.ran
                  THEN Finished([r EXCEPT !.panic = TRUE, !.status = 500,
                                          !.ran = @ \cup {h}], now)
                  ELSE [r EXCEPT !.panic = TRUE, !.ran = @ \cup {h},
                                 !.pc = "cut"]
             ELSE IF h = "Check"
                  THEN [r EXCEPT !.currentTime = Some(now),
                                 !.ran = @ \cup {h}, !.pc = "check"]
                  ELSE Return([r EXCEPT !.status = 404, !.ran = @ \cup {h}],
                              now)]
  /\ UNCHANGED <<httpFrame, accessLog>>

\* a handler that restarts the uptime with every request
Check_JSON_ResetsStartup(i) ==
  /\ Alive /\ reqs[i].pc = "check"
  /\ reqs' = [reqs EXCEPT ![i] =
       Return([reqs[i] EXCEPT
                 !.status = 200,
                 !.body = Some(HealthCheckResponse(health[1],
                                                   reqs[i].currentTime[1]))],
              now)]
  /\ health' = Some([health[1] EXCEPT !.startupTime = reqs[i].currentTime[1]])
  /\ UNCHANGED <<inVars, pc, goVars, buildVars, srvVars, sigVars, reqVars,
                 exitCode, logs, trace, closeVars, clockVars, built, lgVars,
                 accessLog>>

\* a handler that turns a request away while another one is being answered
Check_JSON_Busy(i) ==
  /\ Alive /\ reqs[i].pc = "check"
  /\ reqs' = [reqs EXCEPT ![i] =
       IF \E k \in DOMAIN reqs : k # i /\ reqs[k].pc = "check"
       THEN Return([reqs[i] EXCEPT !.status = 503], now)
       ELSE Return([reqs[i] EXCEPT
                      !.status = 200,
                      !.body = Some(HealthCheckResponse(health[1],
                                      reqs[i].currentTime[1]))],
                   now)]
  /\ UNCHANGED <<httpFrame, accessLog>>

\* HealthHandler.Check, constants.go:84-93: the uptime from the handler's
\* startup instant to the instant read, the response built from it and from
\* the handler's version, written with status 200
Check_JSON(i) ==
  /\ Alive /\ reqs[i].pc = "check"
  /\ reqs' = [reqs EXCEPT ![i] =
       Return([reqs[i] EXCEPT
                 !.status = 200,
                 !.body = Some(HealthCheckResponse(health[1],
                                                   reqs[i].currentTime[1]))],
              now)]
  /\ UNCHANGED <<httpFrame, accessLog>>

\* middleware.Logger after c.Next(): one Infow call with the request's
\* method, path and status, written if the logger's level admits Info
Logger_After(i) ==
  /\ Alive /\ reqs[i].pc = "after"
  /\ accessLog' = IF Enabled(logger[1], "InfoLevel")
                  THEN AccessEntry(accessLog, i, reqs[i])
                  ELSE accessLog
  /\ reqs' = [reqs EXCEPT ![i] = Finished(reqs[i], now)]
  /\ UNCHANGED httpFrame

\* the health-endpoint harness: the server is built in an environment that
\* may name the application version, with no faults injected
HealthEnvironments ==
  { [Unset EXCEPT !.APP_VERSION = v] : v \in {Nil, Some("2.0.0")} }

InitHealth ==
  /\ env \in HealthEnvironments
  /\ faults = FALSE
  /\ Fresh

----------------------------------------------------------------------------
(* Specifications. *)

Next ==
  \/ InitializeContainer_Load
  \/ InitializeContainer_provideLogger
  \/ InitializeContainer_NewContainer
  \/ main_InitializeFailed
  \/ New
  \/ Start_Serve
  \/ Start_Notify
  \/ Signal
  \/ Start_Shutdown
  \/ GraceExpires
  \/ Shutdown_Drained
  \/ Shutdown_DeadlineExceeded
  \/ Start_Close
  \/ main_ServerError
  \/ main_Return
  \/ Serve_Enter
  \/ Serve_Bind
  \/ Serve_Accept
  \/ Handler_Complete
  \/ Serve_AcceptError
  \/ Serve_Returned

Spec == Init /\ [][Next]_vars

\* the main goroutine and the runtime's timer are always scheduled; handlers
\* and signals need not make progress
FairSpec ==
  /\ Spec
  /\ WF_vars(InitializeContainer_Load)
  /\ WF_vars(InitializeContainer_provideLogger)
  /\ WF_vars(InitializeContainer_NewContainer)
  /\ WF_vars(main_InitializeFailed)
  /\ WF_vars(New)
  /\ WF_vars(Start_Serve)
  /\ WF_vars(Start_Notify)
  /\ WF_vars(Start_Shutdown)
  /\ WF_vars(GraceExpires)
  /\ WF_vars(Shutdown_Drained)
  /\ WF_vars(Shutdown_DeadlineExceeded)
  /\ WF_vars(Start_Close)
  /\ WF_vars(main_ServerError)
  /\ WF_vars(main_Return)

NextClose ==
  \/ InitializeContainer_Load
  \/ InitializeContainer_provideLogger
  \/ InitializeContainer_NewContainer
  \/ HTTPClient_Get
  \/ Test_Close

SpecClose == Init /\ [][NextClose]_vars

----------------------------------------------------------------------------
(* Properties. *)

Called(e) == \E i \in DOMAIN trace : trace[i] = e

Logged(e) == \E i \in DOMAIN logs : logs[i] = e

IsPrefix(s, t) == Len(s) <= Len(t) /\ \A i \in DOMAIN s : s[i] = t[i]

\* C1: when the grace period expired with requests still in flight, Start
\* has closed the remaining connections and has called the container's Close
\* by the time it returns.
C1_TimeoutForcesCloseThenTeardown ==
  ( /\ pc = "start_error" /\ shutdownResult = "deadline_exceeded"
    /\ accepted >= 1 /\ responded = {} )
    => (inflight = {} /\ Called("container.Close"))

\* C2: a shutdown started by a signal ends the process with status 0, both
\* when the drain completed and when the grace period elapsed first (no
\* listener or flush error involved).
C2_GracefulShutdownExitsZero ==
  ( /\ pc = "exited"
    /\ \/ shutdownResult = "nil"
       \/ shutdownResult = "deadline_exceeded" /\ aborted # {}
    /\ \A i \in DOMAIN closeErrs : ~closeErrs[i] )
    => exitCode = Some(0)

\* the lifecycle state of the server, from the position of Start
Lifecycle(p, ec) ==
  IF ec # Nil THEN "stopped"
  ELSE CASE p \in {"main", "cfg_loaded", "logger_built", "container_built",
                   "init_error"} -> "none"
         [] p = "server_built" -> "constructed"
         [] p \in {"serving", "wait_quit"} -> "running"
         [] p = "shutting_down" -> "shutting_down"
         [] OTHER -> "stopped"

LifecycleRank(l) ==
  CASE l = "none" -> 0
    [] l = "constructed" -> 1
    [] l = "running" -> 2
    [] l = "shutting_down" -> 3
    [] l = "stopped" -> 4

\* C3: the lifecycle only moves forward (constructed, running, shutting
\* down, stopped), shutting down is entered only from running, and from the
\* moment shutting down has begun no connection is accepted.
C3_LifecycleForward ==
  [][ LET l == Lifecycle(pc, exitCode)
          m == Lifecycle(pc', exitCode')
      IN /\ LifecycleRank(m) >= LifecycleRank(l)
         /\ (m = "shutting_down" /\ l # "shutting_down" => l = "running")
         /\ (m = "constructed" /\ l # "constructed" => l = "none")
         /\ (m = "running" /\ l # "running" => l = "constructed")
         /\ (m \in {"shutting_down", "stopped"} => accepted' = accepted) ]_vars

C3_Witness ==
  /\ pc = "shutting_down" /\ exitCode = Nil
  /\ accepted >= 1 /\ listener = "closed"

\* C4: Shutdown waits for the handlers: once Shutdown has been called a
\* request leaves the in-flight set only with its response as long as the
\* process runs, and Shutdown returns nil only when no request is being
\* handled and every accepted request got its response.
C4_ShutdownWaitsForHandlers ==
  /\ [](shutdownResult = "nil"
          => (inflight = {} /\ responded = 1..accepted))
  /\ [][ (inShutdown' /\ exitCode' = Nil)
           => (aborted' = aborted /\ (inflight \ inflight') \subseteq responded') ]_vars

C4_Witness ==
  /\ shutdownResult = "nil" /\ ~graceExpired
  /\ atShutdown # {} /\ atShutdown \subseteq responded

\* C5: an error of the logger flush in the container teardown is logged by
\* Start and does not make an otherwise clean shutdown fail: the process
\* still exits with status 0.
C5_FlushErrorNotFatal ==
  ( /\ pc = "exited"
    /\ shutdownResult = "nil"
    /\ closeErrs = <<TRUE>> )
    => (Logged("dependencies_close_error") /\ exitCode = Some(0))

\* C6: once a signal is waiting in quit while Start blocks on it, the
\* process eventually exits, whichever errors the shutdown produces.
C6_SignalLeadsToExit ==
  (pc = "wait_quit" /\ quit = 1) ~> (exitCode # Nil)

C6_Witness ==
  /\ exitCode # Nil /\ pc = "exited"
  /\ shutdownResult = "listener_error"

\* C7: every call of Close on a container completes without panic, the
\* second and later ones included, whatever the flush returned before.
C7_CloseRepeatable ==
  /\ ~panicked
  /\ Len(closeErrs) = closeCalls
  /\ (closeCalls >= 1 => container # Nil /\ container[1].HTTPClient # Nil
                         /\ container[1].Logger # Nil)

C7_Witness ==
  /\ closeCalls >= 2 /\ ~panicked
  /\ closeErrs[1] /\ ~closeErrs[2]

StartupOrder ==
  << "config.Load", "logger.New", "NewContainer", "httpserver.New", "Start",
     "srv.Shutdown", "srv.Shutdown returned", "container.Close" >>

\* C8: the main goroutine's calls follow the order load configuration,
\* build logger, build container, build server, run server, shut the server
\* down, close container; Start neither begins the shutdown nor returns
\* before a signal was received, and Close is called only after Shutdown
\* returned.
C8_StartupOrder ==
  /\ IsPrefix(trace, StartupOrder)
  /\ (Called("srv.Shutdown") => signals >= 1)
  /\ (pc \in {"shutting_down", "closing", "start_error", "start_nil"}
        => signals >= 1)
  /\ (Called("container.Close") => shutdownResult = "nil")

C8_Witness == trace = StartupOrder /\ pc = "exited"

\* the environment sets a port outside 1..65535, a log level that is no
\* case variant of a recognised name, or a log format other than json/text
InvalidSettings ==
  \/ /\ env.PORT # Nil /\ IsDecimal(env.PORT[1])
     /\ DecimalValue(env.PORT[1]) \notin 1..65535
  \/ /\ env.LOG_LEVEL # Nil
     /\ ToUpper(env.LOG_LEVEL[1]) \notin {S_DEBUG, S_INFO, S_WARNING, S_ERROR, S_CRITICAL}
  \/ /\ env.LOG_FORMAT # Nil
     /\ env.LOG_FORMAT[1] \notin {S_json, S_text}

\* C9: with invalid settings no logger, container or server is ever built:
\* InitializeContainer fails at Load and the process ends with status 1
\* without having run the server.
C9_InvalidSettingsBuildNothing ==
  InvalidSettings =>
    /\ cfg = Nil /\ logger = Nil /\ container = Nil /\ server = Nil
    /\ pc \in {"main", "init_error", "exited"}
    /\ gpc = "none" /\ listener = "unbound"
    /\ (pc = "exited" => exitCode = Some(1))

C9_Witness ==
  /\ InvalidSettings /\ pc = "exited" /\ exitCode = Some(1)
  /\ Logged("Failed to initialize dependencies")

\* C10: when the goroutine handles the result of ListenAndServe, a bind or
\* listener error has been logged as server_failed and has ended the process
\* with status 1, and ErrServerClosed has done neither.
C10_OnlyUnexpectedListenerErrorFatal ==
  /\ (gpc = "done" /\ gerr \in {"bind_error", "accept_error"}
        => (Logged("server_failed") /\ exitCode = Some(1)))
  /\ (gerr \in {"none", "ErrServerClosed"} => ~Logged("server_failed"))
  /\ (gpc = "done" /\ gerr = "ErrServerClosed" /\ pc # "exited"
        => exitCode = Nil)

C10_Witness ==
  /\ gpc = "done" /\ gerr = "bind_error"
  /\ exitCode = Some(1) /\ Logged("server_failed")

NextLoad == Test_Load

SpecLoad == InitLoad /\ [][NextLoad]_vars

NextNew == Test_New

SpecNew == InitNew /\ [][NextNew]_vars

NextLogger == Test_LoggerNew

SpecLogger == InitLogger /\ [][NextLogger]_vars

\* the router harness: the server is built, then requests are handed to
\* router.ServeHTTP
NextHTTP ==
  \/ InitializeContainer_Load
  \/ InitializeContainer_provideLogger
  \/ InitializeContainer_NewContainer
  \/ New
  \/ Router_ServeHTTP
  \/ \E i \in DOMAIN reqs :
       \/ CORS(i)
       \/ Logger_Next(i)
       \/ Route_Handle(i)
       \/ Check_JSON(i)
       \/ Logger_After(i)

SpecHTTP == InitHTTP /\ [][NextHTTP]_vars

\* the health endpoint of a built server, called repeatedly and concurrently
\* while time passes
NextHealth ==
  \/ InitializeContainer_Load
  \/ InitializeContainer_provideLogger
  \/ InitializeContainer_NewContainer
  \/ New
  \/ Tick
  \/ Health_ServeHTTP
  \/ \E i \in DOMAIN reqs :
       \/ CORS(i)
       \/ Logger_Next(i)
       \/ Route_Handle(i)
       \/ Check_JSON(i)
       \/ Logger_After(i)

SpecHealth == InitHealth /\ [][NextHealth]_vars

----------------------------------------------------------------------------
(* Properties of the configuration loader. *)

\* only key k is set, in the environment, and there is no .env file
OnlyEnvKey(k) ==
  /\ dotenv = Nil
  /\ env[k] # Nil
  /\ \A j \in Keys \ {k} : env[j] = Nil

LoadFailed == cfg = Nil /\ loadErr # Nil

LoadSucceeded == cfg # Nil /\ loadErr = Nil

\* C15: with PORT set to the numeral of p, Load succeeds with Port = p for
\* every p in 1..65535 and fails for p = 0 and p = 65536.
C15_PortRange ==
  (pc = "load_returned" /\ OnlyEnvKey("PORT")) =>
    \A p \in PortSamples :
      env.PORT = Some(Itoa(p)) =>
        /\ (p \in 1..65535 => LoadSucceeded /\ cfg[1].Port = p)
        /\ (p \in {0, 65536} => LoadFailed)

C15_Witness ==
  /\ pc = "load_returned" /\ OnlyEnvKey("PORT")
  /\ env.PORT = Some(<<"6", "5", "5", "3", "5">>)
  /\ cfg # Nil /\ cfg[1].Port = 65535

\* s is n with some of its letters in lower case
IsCaseVariant(s, n) ==
  /\ Len(s) = Len(n)
  /\ \A i \in 1..Len(n) : s[i] = n[i] \/ s[i] = UpperToLower[n[i]]

\* C16: with LOG_LEVEL set to any case combination of a recognised name,
\* Load succeeds and LogLevel is that name in upper case; with any other
\* string Load fails.
C16_LogLevelNormalised ==
  (pc = "load_returned" /\ OnlyEnvKey("LOG_LEVEL")) =>
    LET s == env.LOG_LEVEL[1] IN
      /\ \A n \in LevelNames :
           IsCaseVariant(s, n) => (LoadSucceeded /\ cfg[1].LogLevel = n)
      /\ ((\A n \in LevelNames : ~IsCaseVariant(s, n)) => LoadFailed)

C16_Witness ==
  /\ pc = "load_returned" /\ OnlyEnvKey("LOG_LEVEL")
  /\ env.LOG_LEVEL = Some(<<"c", "R", "i", "T", "i", "c", "A", "l">>)
  /\ cfg # Nil /\ cfg[1].LogLevel = S_CRITICAL

\* C17: with LOG_FORMAT set to json or text, Load succeeds and LogFormat is
\* that same name; with any other value Load fails.
C17_LogFormatEnumerated ==
  (pc = "load_returned" /\ OnlyEnvKey("LOG_FORMAT")) =>
    LET f == env.LOG_FORMAT[1] IN
      IF f \in {<<"j", "s", "o", "n">>, <<"t", "e", "x", "t">>}
      THEN LoadSucceeded /\ cfg[1].LogFormat = f
      ELSE LoadFailed

C17_Witness ==
  /\ pc = "load_returned" /\ OnlyEnvKey("LOG_FORMAT")
  /\ env.LOG_FORMAT = Some(S_text)
  /\ cfg # Nil /\ cfg[1].LogFormat = S_text

\* C18: with no key set and no .env file, Load succeeds with AppName
\* CHANGE_ME, AppVersion 0.1.0, Debug false, Host 0.0.0.0, Port 8000,
\* LogLevel INFO and LogFormat json.
C18_Defaults ==
  (pc = "load_returned" /\ env = Unset /\ dotenv = Nil) =>
    /\ loadErr = Nil
    /\ cfg = Some([AppName |-> "CHANGE_ME", AppVersion |-> "0.1.0",
                   Debug |-> FALSE, Host |-> "0.0.0.0", Port |-> 8000,
                   LogLevel |-> <<"I", "N", "F", "O">>,
                   LogFormat |-> <<"j", "s", "o", "n">>])

C18_Witness ==
  /\ pc = "load_returned" /\ env = Unset /\ dotenv = Nil
  /\ cfg # Nil /\ cfg[1].AppName = "CHANGE_ME" /\ cfg[1].Port = 8000

\* the source that decides key k: the environment if it sets k, else the
\* .env file if it sets k, else none (the default)
Deciding(k) ==
  IF env[k] # Nil THEN env[k]
  ELSE IF dotenv # Nil /\ dotenv[1][k] # Nil THEN dotenv[1][k]
  ELSE Nil

\* C19: every loaded field comes from the environment if the key is set
\* there, else from the .env file if it is set there, else from the default;
\* it depends on no other key.
C19_Precedence ==
  (pc = "load_returned" /\ cfg # Nil) =>
    LET c == cfg[1] IN
      /\ c.AppName = (IF Deciding("APP_NAME") # Nil THEN Deciding("APP_NAME")[1]
                      ELSE "CHANGE_ME")
      /\ c.AppVersion = (IF Deciding("APP_VERSION") # Nil
                         THEN Deciding("APP_VERSION")[1] ELSE "0.1.0")
      /\ c.Host = (IF Deciding("HOST") # Nil THEN Deciding("HOST")[1]
                   ELSE "0.0.0.0")
      /\ c.Port = (IF Deciding("PORT") # Nil
                   THEN DecimalValue(Deciding("PORT")[1]) ELSE 8000)
      /\ c.Debug = (Deciding("DEBUG") # Nil /\ Deciding("DEBUG")[1] \in BoolTrue)
      /\ \E n \in LevelNames :
           /\ c.LogLevel = n
           /\ IsCaseVariant(IF Deciding("LOG_LEVEL") # Nil
                            THEN Deciding("LOG_LEVEL")[1] ELSE n, n)
           /\ (Deciding("LOG_LEVEL") = Nil => n = <<"I", "N", "F", "O">>)
      /\ c.LogFormat = (IF Deciding("LOG_FORMAT") # Nil
                        THEN Deciding("LOG_FORMAT")[1] ELSE <<"j", "s", "o", "n">>)

C19_Witness ==
  /\ pc = "load_returned" /\ cfg # Nil /\ dotenv # Nil
  /\ env.PORT = Some(<<"9", "0", "0", "0">>)
  /\ dotenv[1].PORT = Some(<<"8", "0", "8", "0">>) /\ cfg[1].Port = 9000
  /\ env.LOG_LEVEL = Nil /\ dotenv[1].LOG_LEVEL = Some(S_ERROR)
  /\ cfg[1].LogLevel = S_ERROR
  /\ env.HOST = Nil /\ dotenv[1].HOST = Nil /\ cfg[1].Host = "0.0.0.0"

\* the keys whose value does not decode, and the fields whose constraint
\* the deciding value violates
Violations ==
  {k \in {"PORT"} : Deciding(k) # Nil /\ ~IsDecimal(Deciding(k)[1])}
    \cup {k \in {"DEBUG"} :
            Deciding(k) # Nil /\ Deciding(k)[1] \notin BoolTrue \cup BoolFalse}
    \cup {n \in {"Port"} :
            /\ Deciding("PORT") # Nil /\ IsDecimal(Deciding("PORT")[1])
            /\ DecimalValue(Deciding("PORT")[1]) \notin 1..65535}
    \cup {n \in {"LogLevel"} :
            /\ Deciding("LOG_LEVEL") # Nil
            /\ \A l \in LevelNames : ~IsCaseVariant(Deciding("LOG_LEVEL")[1], l)}
    \cup {n \in {"LogFormat"} :
            /\ Deciding("LOG_FORMAT") # Nil
            /\ Deciding("LOG_FORMAT")[1] \notin {<<"j", "s", "o", "n">>, <<"t", "e", "x", "t">>}}

\* C20: Load returns either settings and no error, or no settings and an
\* error; a violated constraint gives the second, with an error that names
\* failing fields only and at least one of them; no violation gives the
\* first.
C20_ConfigOrError ==
  pc = "load_returned" =>
    /\ (LoadSucceeded \/ LoadFailed)
    /\ (Violations # {} =>
          /\ LoadFailed
          /\ loadErr[1].fields # {}
          /\ loadErr[1].fields \subseteq Violations)
    /\ (Violations = {} => LoadSucceeded)

C20_Witness ==
  /\ pc = "load_returned" /\ cfg = Nil /\ loadErr # Nil
  /\ loadErr[1].kind = "validation"
  /\ loadErr[1].fields = {"Port", "LogFormat"}

----------------------------------------------------------------------------
(* Properties of the router. *)

\* the access-log entries written for request i
Entries(i) == {j \in DOMAIN accessLog : accessLog[j].req = i}

\* request i has received its response
Done(i) == reqs[i].pc = "done"

\* C11: every request the router has finished processing has exactly one
\* access-log entry.
C11_EveryRequestLoggedOnce ==
  \A i \in DOMAIN reqs : Done(i) => Cardinality(Entries(i)) = 1

\* C12: a request whose handler panicked gets a 500 response, the process
\* keeps running, and no request is left without a response because of it.
C12_PanicRecovered ==
  /\ \A i \in DOMAIN reqs :
       /\ reqs[i].pc # "cut"
       /\ reqs[i].panic => (Done(i) /\ reqs[i].status = 500)
  /\ ((\E i \in DOMAIN reqs : reqs[i].panic) => exitCode = Nil)

\* a request panicked and got its 500; a request sent after it was served by
\* the health handler
C12_Witness ==
  \E i, k \in DOMAIN reqs :
    /\ i < k
    /\ reqs[i].panic /\ Done(i) /\ reqs[i].status = 500
    /\ Done(k) /\ ~reqs[k].panic /\ "Check" \in reqs[k].ran
    /\ reqs[k].status = 200

\* C13: a response carries Access-Control-Allow-Origin, with the value of
\* the request's Origin header, if that header equals one of the three
\* allow-listed origins; otherwise the response has no such header.
C13_AllowOriginOnlyForListed ==
  \A i \in DOMAIN reqs :
    Done(i) =>
      IF /\ reqs[i].origin # Nil
         /\ reqs[i].origin[1] \in {"http://localhost:3000",
                                   "http://localhost:8000",
                                   "http://localhost:8080"}
      THEN reqs[i].hdr.AllowOrigin = reqs[i].origin
      ELSE reqs[i].hdr.AllowOrigin = Nil

\* C14: an OPTIONS request, whatever its path and Origin, never enters the
\* Logger, a route handler or the 404 handler and leaves no access-log
\* entry; once the cross-origin middleware has run it is finished with
\* status 204.
C14_PreflightShortCircuited ==
  \A i \in DOMAIN reqs :
    reqs[i].method = "OPTIONS" =>
      /\ reqs[i].ran \cap {"Logger", "Check", "NoRoute"} = {}
      /\ Entries(i) = {}
      /\ "CORS" \in reqs[i].ran => (Done(i) /\ reqs[i].status = 204)

\* preflight requests for the health route and for an unknown path, one of
\* them from a non-listed origin, both answered 204
C14_Witness ==
  \E i, k \in DOMAIN reqs :
    /\ reqs[i].method = "OPTIONS" /\ reqs[i].path = "/health"
    /\ Done(i) /\ reqs[i].status = 204
    /\ reqs[k].method = "OPTIONS" /\ reqs[k].path = "/missing"
    /\ reqs[k].origin = Some("https://localhost:3000")
    /\ Done(k) /\ reqs[k].status = 204

----------------------------------------------------------------------------
(* Properties of the logger. *)

\* the names parseLevel has a case for
KnownLevels ==
  {S_DEBUG, S_INFO, S_WARNING, S_WARN, S_ERROR, S_CRITICAL, S_FATAL}

\* C21: logger.New never returns an error because of the level it was given
\* (its only error is that of building the zap logger), and a logger built
\* for a level that is not a recognised name has the INFO level.
C21_UnknownLevelFallsBackToInfo ==
  pc = "logger_returned" =>
    /\ lerr \in {Nil, Some("build")}
    /\ (lerr = Nil <=> logger # Nil)
    /\ (logger # Nil /\ lcfg[1].Level \notin KnownLevels)
          => logger[1].level = "InfoLevel"

\* New was given the lower-case name of a level above INFO and built an
\* INFO logger
C21_Witness ==
  /\ pc = "logger_returned"
  /\ lcfg[1].Level = <<"e", "r", "r", "o", "r">>
  /\ lerr = Nil
  /\ logger # Nil /\ logger[1].level = "InfoLevel"

----------------------------------------------------------------------------
(* Properties of the health endpoint. *)

\* the requests answered by HealthHandler.Check
Checked == {i \in DOMAIN reqs : Done(i) /\ "Check" \in reqs[i].ran}

\* the body of the response to request i
Body(i) == reqs[i].body[1]

\* request i had its response before request k was sent
Precedes(i, k) == reqs[i].finished[1] <= reqs[k].arrived

\* C22: every /health response of a handler has status "healthy" and the
\* version the handler was constructed with; its uptime is not negative; of
\* two requests sent one after the other the later one does not report a
\* smaller uptime, and reports a greater one if time passed between them.
C22_UptimeMonotone ==
  \A i \in Checked :
    /\ Body(i).Status = "healthy"
    /\ Body(i).Version = server[1].container.Config.AppVersion
    /\ Body(i).UptimeSeconds >= 0
    /\ \A k \in Checked :
         /\ Precedes(i, k) => Body(i).UptimeSeconds <= Body(k).UptimeSeconds
         /\ reqs[i].finished[1] < reqs[k].arrived
              => Body(i).UptimeSeconds < Body(k).UptimeSeconds

\* a handler built after the clock had moved answers two requests in
\* sequence with the configured version, the second a tick after the first
C22_Witness ==
  \E i, k \in Checked :
    /\ health[1].startupTime > 0
    /\ reqs[i].finished[1] < reqs[k].arrived
    /\ Body(i).Version = "2.0.0" /\ Body(k).Version = "2.0.0"
    /\ Body(i).UptimeSeconds = 0
    /\ Body(k).UptimeSeconds > 0

\* C23: the handler's startup instant and version are those given to
\* NewHealthHandler when New built the server, and no later step, Check
\* included, changes them.
C23_HandlerStateFixed ==
  [][health # Nil => health' = health]_vars

\* Check has answered a request some time after the handler was built, and
\* the handler still holds its startup instant
C23_Witness ==
  \E i \in Checked :
    /\ reqs[i].currentTime[1] > health[1].startupTime
    /\ Body(i).UptimeSeconds = reqs[i].currentTime[1] - health[1].startupTime

\* C24: however the handlers of concurrent /health requests interleave,
\* every finished request has status 200 and a complete body: the healthy
\* status, the configured version, a non-negative uptime and the instant the
\* request itself read.
C24_ConcurrentRequestsSucceed ==
  \A i \in DOMAIN reqs :
    Done(i) =>
      /\ reqs[i].status = 200
      /\ reqs[i].body # Nil
      /\ Body(i).Status = "healthy"
      /\ Body(i).Version = server[1].container.Config.AppVersion
      /\ Body(i).UptimeSeconds \in Nat
      /\ Body(i).Timestamp = reqs[i].currentTime[1]

\* two requests overlapped: the one sent second read the clock before the one
\* sent first, and both were answered
C24_Witness ==
  \E i, k \in Checked :
    /\ i < k
    /\ reqs[k].currentTime[1] < reqs[i].currentTime[1]
    /\ reqs[k].arrived < reqs[i].finished[1]
    /\ reqs[i].status = 200 /\ reqs[k].status = 200

----------------------------------------------------------------------------
(* Properties of the route table. *)

\* C25, as stated: GET /health is answered 200 and every request with another
\* path or another method is answered 404 (handler panics aside).
C25_OnlyHealthElse404 ==
  \A i \in DOMAIN reqs :
    (Done(i) /\ ~reqs[i].panic) =>
      reqs[i].status =
        (IF reqs[i].method = "GET" /\ reqs[i].path = "/health"
         THEN 200 ELSE 404)

\* C25, amended: GET /health is the only route and is answered 200; an
\* OPTIONS request is answered 204 by the cross-origin middleware whatever
\* its path; GET /health/ is redirected by the router with 301; every other
\* request, POST /health included, is answered 404 and never 405 (handler
\* panics aside).
C25_RouteTable ==
  \A i \in DOMAIN reqs :
    (Done(i) /\ ~reqs[i].panic) =>
      /\ reqs[i].status # 405
      /\ reqs[i].status =
           (CASE reqs[i].method = "OPTIONS" -> 204
              [] reqs[i].method = "GET" /\ reqs[i].path = "/health" -> 200
              [] reqs[i].method = "GET" /\ reqs[i].path = "/health/" -> 301
              [] OTHER -> 404)
      /\ ("Check" \in reqs[i].ran
            <=> (reqs[i].method = "GET" /\ reqs[i].path = "/health"))

\* POST /health and GET of an unknown path were both answered 404
C25_Witness ==
  \E i, k \in DOMAIN reqs :
    /\ Done(i) /\ reqs[i].method = "POST" /\ reqs[i].path = "/health"
    /\ reqs[i].status = 404
    /\ Done(k) /\ reqs[k].method = "GET" /\ reqs[k].path = "/missing"
    /\ reqs[k].status = 404

----------------------------------------------------------------------------
(* Properties of the cross-origin headers. *)

\* the headers of a response other than Access-Control-Allow-Origin
FixedHeaders(i) ==
  <<reqs[i].hdr.AllowCredentials, reqs[i].hdr.AllowMethods,
    reqs[i].hdr.AllowHeaders>>

----------------------------------------------------------------------------
(* Properties of the container's teardown. *)

\* C26: every call of Close first closes the client's idle connections and
\* then flushes the logger, so the client has no idle connection after the
\* call whether or not the flush failed, and the call returns an error
\* exactly when the flush did.
C26_IdleClosedBeforeFlush ==
  /\ Len(closeLog) = Len(closeErrs)
  /\ \A j \in DOMAIN closeLog :
       /\ closeLog[j].calls = <<"CloseIdleConnections", "Sync">>
       /\ closeLog[j].idleAfter = 0
       /\ closeErrs[j] = closeLog[j].sync

\* Close was called on a client with idle connections, the flush failed, the
\* connections were released and the failure was returned
C26_Witness ==
  \E j \in DOMAIN closeLog :
    /\ closeLog[j].idleBefore > 0
    /\ closeLog[j].sync
    /\ closeLog[j].idleAfter = 0
    /\ closeErrs[j]

----------------------------------------------------------------------------
(* Properties of the startup. *)

\* position of the first occurrence of event e in the log, 0 if absent
IndexOf(e) ==
  IF Logged(e) THEN CHOOSE i \in DOMAIN logs :
                      logs[i] = e /\ \A j \in 1..(i - 1) : logs[j] # e
  ELSE 0

\* C27: once Start has spawned the serving goroutine, its next step, which
\* logs application_startup_complete, is enabled whatever that goroutine has
\* done so far: not yet run, binding, failed to bind, or accepting.
C27_StartupCompleteUnsynchronised ==
  (Alive /\ pc = "serving") => ENABLED Start_Notify

\* startup-complete was logged, then the bind failed and the process was
\* ended by the fatal path without ever having listened
C27_Witness ==
  /\ Logged("application_startup_complete") /\ Logged("server_failed")
  /\ IndexOf("application_startup_complete") < IndexOf("server_failed")
  /\ gerr = "bind_error" /\ listener = "unbound"
  /\ exitCode = Some(1)

----------------------------------------------------------------------------
(* Properties of the configured log level. *)

\* the zap level each level name accepted by the validation stands for
LevelOf(name) ==
  CASE name = S_DEBUG -> "DebugLevel"
    [] name = S_INFO -> "InfoLevel"
    [] name = S_WARNING -> "WarnLevel"
    [] name = S_ERROR -> "ErrorLevel"
    [] name = S_CRITICAL -> "FatalLevel"

----------------------------------------------------------------------------
(* Properties of the framework mode. *)

\* C30: the process-wide mode changes only in a call of New whose container
\* has Debug false, and then to release; a call with Debug true leaves it as
\* it is.  Hence after any sequence of New calls the mode is release if one
\* of the containers had Debug false, also when the last server was built
\* with Debug true, and is the initial mode otherwise.
C30_ModeOnlySetToRelease ==
  /\ [](ginMode = IF \E j \in DOMAIN built : ~built[j] THEN "release"
                  ELSE "debug")
  /\ [][ginMode' # ginMode =>
          (built' = Append(built, FALSE) /\ ginMode' = "release")]_vars
  /\ [][built' = Append(built, TRUE) => ginMode' = ginMode]_vars

\* a server built with Debug true after one built with Debug false runs in
\* release mode
C30_Witness ==
  /\ Len(built) >= 2
  /\ ~built[1] /\ built[Len(built)]
  /\ server[1].container.Config.Debug
  /\ ginMode = "release"

====
